---- MODULE Spec2Model ----
(***************************************************************************)
(* A model of src/quizgen.py: the usage counter kept in usage_count.txt,   *)
(* generate_questions (one call of the Cohere client, json.loads of the    *)
(* returned text, two except clauses) and the __main__ block (json mode    *)
(* and the interactive quiz loop).                                         *)
(*                                                                         *)
(* Texts are sequences of one-character strings (the usage file) or of     *)
(* JSON tokens (the API response, the json mode output).  A process is a   *)
(* run of the python interpreter on the module; pc[p] is its position.     *)
(***************************************************************************)
EXTENDS Integers, Sequences, FiniteSets, TLC

VARIABLES
    file,          \* usage_count.txt: [exists |-> BOOLEAN, content |-> text]
    usage_count,   \* the module global usage_count of each process
    pc,            \* the position of each process
    exit_status,   \* the exit status of each process, Running until it ends
    uncaught,      \* the exception that ended the process, "" when none
    mode,          \* args.mode
    response,      \* the outcome of co.chat
    questions,     \* what generate_questions returned
    qi,            \* the number of questions the for loop has taken
    stdout,        \* the lines printed to standard output and the answers read
    stderr,        \* the lines printed to standard error
    file0,         \* history: the file when the first process started
    loaded,        \* history: the count each process loaded at startup
    calls,         \* history: the finished log_api_usage calls of each process
    written        \* history: the counts written to the file, in order

usageVars  == <<file, usage_count, file0, loaded, calls, written>>
scriptVars == <<mode, response, questions, qi, stdout, stderr>>
vars == <<file, usage_count, pc, exit_status, uncaught, mode, response,
          questions, qi, stdout, stderr, file0, loaded, calls, written>>

\* ------------------------------------------------------------- bounds

\* log_api_usage calls a process makes in the counter specifications
MaxCalls == 3
\* the largest integer typed at a prompt (the smallest is -1)
MaxAnswer == 4

Procs == {1, 2}
Running == -1
Unbound == -1

\* --------------------------------------------------------------- text

DigitChars == <<"0", "1", "2", "3", "4", "5", "6", "7", "8", "9">>

IsDigit(c) == \E d \in 1..10 : DigitChars[d] = c

DigitValue(c) == (CHOOSE d \in 1..10 : DigitChars[d] = c) - 1

IsSpace(c) == c \in {" ", "\n"}

RECURSIVE LStrip(_)
LStrip(s) ==
    IF s # <<>> /\ IsSpace(Head(s)) THEN LStrip(Tail(s)) ELSE s

RECURSIVE RStrip(_)
RStrip(s) ==
    IF s # <<>> /\ IsSpace(s[Len(s)]) THEN RStrip(SubSeq(s, 1, Len(s) - 1)) ELSE s

\* str.strip()
Strip(s) == RStrip(LStrip(s))

\* the digits int() accepts once whitespace and a sign are taken off
\* (underscores are outside the alphabet of the model)
IsIntLiteral(s) == s # <<>> /\ \A k \in 1..Len(s) : IsDigit(s[k])

RECURSIVE IntOf(_)
IntOf(s) ==
    IF s = <<>> THEN 0
    ELSE IntOf(SubSeq(s, 1, Len(s) - 1)) * 10 + DigitValue(s[Len(s)])

\* str(n) for n >= 0
RECURSIVE Str(_)
Str(n) ==
    IF n < 10 THEN <<DigitChars[n + 1]>>
    ELSE Str(n \div 10) \o <<DigitChars[(n % 10) + 1]>>

\* ------------------------------------------------------ usage counter

Absent == [exists |-> FALSE, content |-> <<>>]
Holding(s) == [exists |-> TRUE, content |-> s]

\* the usage files a run may find
InitialFiles ==
    {Absent} \cup
    {Holding(s) : s \in {<<>>, <<" ">>, <<"0">>, <<"2">>, <<"9">>,
                         <<"1", "9">>, <<"0", "7">>, <<"4", "\n">>, <<"x">>}}

\* int(f.read().strip() or 0): the value, or Unbound when int() raises
\* (the usage files of the model hold no sign)
ParseCount(s) ==
    IF Strip(s) = <<>> THEN 0
    ELSE IF IsIntLiteral(Strip(s)) THEN IntOf(Strip(s))
    ELSE Unbound

Raise(p, exc, status) ==
    /\ pc' = [pc EXCEPT ![p] = "exit"]
    /\ exit_status' = [exit_status EXCEPT ![p] = status]
    /\ uncaught' = [uncaught EXCEPT ![p] = exc]

\* line 10: os.path.exists(usage_file); lines 13-14 when it does not
ExistsCheck(p) ==
    /\ pc[p] = "start"
    /\ IF file.exists
       THEN /\ pc' = [pc EXCEPT ![p] = "read"]
            /\ UNCHANGED <<usage_count, loaded>>
       ELSE /\ pc' = [pc EXCEPT ![p] = "ready"]
            /\ usage_count' = [usage_count EXCEPT ![p] = 0]
            /\ loaded' = [loaded EXCEPT ![p] = 0]
    /\ UNCHANGED <<file, exit_status, uncaught, file0, calls, written>>
    /\ UNCHANGED scriptVars

\* lines 11-12: read the file and convert it
ReadCount(p) ==
    /\ pc[p] = "read"
    /\ IF ParseCount(file.content) = Unbound
       THEN /\ Raise(p, "ValueError", 1)
            /\ UNCHANGED <<usage_count, loaded>>
       ELSE /\ pc' = [pc EXCEPT ![p] = "ready"]
            /\ usage_count' = [usage_count EXCEPT ![p] = ParseCount(file.content)]
            /\ loaded' = [loaded EXCEPT ![p] = ParseCount(file.content)]
            /\ UNCHANGED <<exit_status, uncaught>>
    /\ UNCHANGED <<file, file0, calls, written>>
    /\ UNCHANGED scriptVars

\* line 18 with the count read back from the file first
IncrementFromFile(p) ==
    /\ pc[p] = "ready"
    /\ calls[p] < MaxCalls
    /\ usage_count' = [usage_count EXCEPT ![p] = ParseCount(file.content) + 1]
    /\ pc' = [pc EXCEPT ![p] = "incremented"]
    /\ UNCHANGED <<file, exit_status, uncaught, file0, loaded, calls, written>>
    /\ UNCHANGED scriptVars

\* line 18 without the increment
IncrementSkipped(p) ==
    /\ pc[p] = "ready"
    /\ calls[p] < MaxCalls
    /\ pc' = [pc EXCEPT ![p] = "incremented"]
    /\ UNCHANGED <<file, usage_count, exit_status, uncaught, file0, loaded, calls, written>>
    /\ UNCHANGED scriptVars

\* lines 17-18: usage_count += 1
Increment(p) ==
    /\ pc[p] = "ready"
    /\ calls[p] < MaxCalls
    /\ usage_count' = [usage_count EXCEPT ![p] = usage_count[p] + 1]
    /\ pc' = [pc EXCEPT ![p] = "incremented"]
    /\ UNCHANGED <<file, exit_status, uncaught, file0, loaded, calls, written>>
    /\ UNCHANGED scriptVars

\* line 19: open(usage_file, "w") creates the file or truncates it
OpenForWrite(p) ==
    /\ pc[p] = "incremented"
    /\ file' = Holding(<<>>)
    /\ pc' = [pc EXCEPT ![p] = "opened"]
    /\ UNCHANGED <<usage_count, exit_status, uncaught, file0, loaded, calls, written>>
    /\ UNCHANGED scriptVars

\* line 20 and the end of the with block: the text reaches the file
WriteCount(p) ==
    /\ pc[p] = "opened"
    /\ file' = Holding(Str(usage_count[p]))
    /\ pc' = [pc EXCEPT ![p] = "ready"]
    /\ calls' = [calls EXCEPT ![p] = calls[p] + 1]
    /\ written' = Append(written, <<p, usage_count[p]>>)
    /\ UNCHANGED <<usage_count, exit_status, uncaught, file0, loaded>>
    /\ UNCHANGED scriptVars

InitUsage(started) ==
    /\ file \in InitialFiles
    /\ file0 = file
    /\ usage_count = [p \in Procs |-> Unbound]
    /\ loaded = [p \in Procs |-> Unbound]
    /\ calls = [p \in Procs |-> 0]
    /\ written = <<>>
    /\ pc = [p \in Procs |-> IF p \in started THEN "start" ELSE "off"]
    /\ exit_status = [p \in Procs |-> Running]
    /\ uncaught = [p \in Procs |-> ""]

InitScriptIdle ==
    /\ mode = "json"
    /\ response = [kind |-> "none", text |-> <<>>, exc |-> ""]
    /\ questions = [kind |-> "none", items |-> <<>>]
    /\ qi = 0
    /\ stdout = <<>>
    /\ stderr = <<>>

\* one process that calls log_api_usage again and again
InitCounter == InitUsage({1}) /\ InitScriptIdle

\* two processes sharing the file
InitRace == InitUsage({1, 2}) /\ InitScriptIdle

NextUsage ==
    \E p \in Procs :
        \/ ExistsCheck(p)
        \/ ReadCount(p)
        \/ Increment(p)
        \/ OpenForWrite(p)
        \/ WriteCount(p)

SpecCounter == InitCounter /\ [][NextUsage]_vars

SpecRace == InitRace /\ [][NextUsage]_vars

\* ---------------------------------------------------------------- JSON

\* Object literals of the response, by name: a token stands for the text
\* of one JSON object.
QuestionTokens == {"qA", "qB", "qC", "qBad", "qNoQ"}

\* the tokens that are a JSON value on their own
ScalarTokens == {"null", "{}", "0", "7"} \cup QuestionTokens

\* the parsed object: which keys it has and what they hold
QuestionOf(tok) ==
    CASE tok = "qA" ->
           [has_question |-> TRUE, choices |-> <<"a0", "a1", "a2", "a3">>,
            answer_index |-> 0, has_explanation |-> TRUE]
      [] tok = "qB" ->
           [has_question |-> TRUE, choices |-> <<"b0", "b1", "b2", "b3">>,
            answer_index |-> 2, has_explanation |-> FALSE]
      [] tok = "qC" ->
           [has_question |-> TRUE, choices |-> <<"c0", "c1", "c2", "c3">>,
            answer_index |-> 3, has_explanation |-> TRUE]
      [] tok = "qBad" ->
           [has_question |-> TRUE, choices |-> <<"d0", "d1", "d2", "d3">>,
            answer_index |-> 5, has_explanation |-> TRUE]
      [] OTHER ->
           [has_question |-> FALSE, choices |-> <<"e0", "e1", "e2", "e3">>,
            answer_index |-> 1, has_explanation |-> TRUE]

\* response texts that are not JSON
NonJsonTexts ==
    { <<>>,
      <<"Sure", "[", "qA", "]">>,
      <<"[", "qA", ",", "]">>,
      <<"[", "qA">>,
      <<"[", "qA", "qB", "]">>,
      <<"qA", "qB">> }

\* response texts that are a JSON array
JsonArrayTexts ==
    { <<"[", "]">>,
      <<"[", "qA", "]">>,
      <<"[", "qB", "]">>,
      <<"[", "qA", ",", "qB", "]">>,
      <<"[", "qC", ",", "qA", "]">>,
      <<"[", "qBad", "]">>,
      <<"[", "qNoQ", "]">>,
      <<"[", "7", "]">> }

\* response texts that are JSON and no array
JsonOtherTexts == { <<"null">>, <<"{}">>, <<"0">>, <<"7">>, <<"qA">> }

Texts == NonJsonTexts \cup JsonArrayTexts \cup JsonOtherTexts

EmptyList == [kind |-> "array", items |-> <<>>]
NoValue == [kind |-> "none", items |-> <<>>]
DecodeError == [kind |-> "error", items |-> <<>>]

ScalarKind(tok) ==
    IF tok = "null" THEN "null"
    ELSE IF tok \in {"0", "7"} THEN "number"
    ELSE "object"

\* element (, element)*
RECURSIVE IsElements(_)
IsElements(s) ==
    /\ s # <<>>
    /\ Head(s) \in ScalarTokens
    /\ \/ Len(s) = 1
       \/ /\ Len(s) >= 3
          /\ s[2] = ","
          /\ IsElements(SubSeq(s, 3, Len(s)))

Elements(s) == [k \in 1..((Len(s) + 1) \div 2) |-> s[2 * k - 1]]

\* json.loads (line 51): the value, or DecodeError for JSONDecodeError.
\* The grammar is a scalar or a flat array of scalars.
json_loads(t) ==
    IF Len(t) = 1 /\ t[1] \in ScalarTokens
    THEN [kind |-> ScalarKind(t[1]), items |-> t]
    ELSE IF Len(t) >= 2 /\ t[1] = "[" /\ t[Len(t)] = "]"
    THEN LET inner == SubSeq(t, 2, Len(t) - 1)
         IN  IF inner = <<>> THEN EmptyList
             ELSE IF IsElements(inner)
             THEN [kind |-> "array", items |-> Elements(inner)]
             ELSE DecodeError
    ELSE DecodeError

RECURSIVE Join(_)
Join(items) ==
    IF items = <<>> THEN <<>>
    ELSE IF Len(items) = 1 THEN items
    ELSE <<Head(items), ",">> \o Join(Tail(items))

\* json.dumps (line 74)
json_dumps(v) ==
    IF v.kind = "array" THEN <<"[">> \o Join(v.items) \o <<"]">> ELSE v.items

\* bool(v), as in "if not questions" (line 79)
Truthy(v) ==
    CASE v.kind = "array" -> v.items # <<>>
      [] v.kind = "null" -> FALSE
      [] v.kind = "number" -> v.items # <<"0">>
      [] v.kind = "object" -> v.items # <<"{}">>
      [] OTHER -> FALSE

\* -------------------------------------------------- generate_questions

\* network, auth, service and any other error: subclasses of Exception
ExceptionClasses ==
    {"ConnectionError", "UnauthorizedError", "ServiceUnavailableError", "RuntimeError"}

\* raised in the call when the process is interrupted: a BaseException
\* that is no Exception
InterruptClasses == {"KeyboardInterrupt"}

ApiOutcomes ==
    {[kind |-> "text", text |-> t, exc |-> ""] : t \in Texts} \cup
    {[kind |-> "raise", text |-> <<>>, exc |-> e] :
        e \in ExceptionClasses \cup InterruptClasses}

NoResponse == [kind |-> "none", text |-> <<>>, exc |-> ""]

Line(ev, n, text) == [ev |-> ev, n |-> n, text |-> text]

\* the handler without the raw response text
HandleJSONDecodeErrorTerse(text) ==
    [returned |-> EmptyList, raised |-> "",
     err |-> <<Line("parse_error", 0, <<>>)>>]

\* lines 53-56: except json.JSONDecodeError
HandleJSONDecodeError(text) ==
    [returned |-> EmptyList, raised |-> "",
     err |-> <<Line("parse_error", 0, <<>>), Line("raw_response", 0, text)>>]

\* the handler raising the error again
HandleExceptionReraise(exc) ==
    [returned |-> NoValue, raised |-> exc,
     err |-> <<Line("api_error", 0, <<exc>>)>>]

\* lines 57-59: except Exception
HandleException(exc) ==
    [returned |-> EmptyList, raised |-> "",
     err |-> <<Line("api_error", 0, <<exc>>)>>]

\* lines 42-59: what the call returns, prints to stderr and raises
generate_questions(o) ==
    IF o.kind = "raise"
    THEN IF o.exc \in ExceptionClasses
         THEN HandleException(o.exc)
         ELSE [returned |-> NoValue, raised |-> o.exc, err |-> <<>>]
    ELSE IF json_loads(o.text) = DecodeError
         THEN HandleJSONDecodeError(o.text)
         ELSE [returned |-> json_loads(o.text), raised |-> "", err |-> <<>>]

\* --------------------------------------------------------- __main__

Main == 1

\* int(s) of python: surrounding whitespace, an optional sign, digits
Unsigned(s) == IF s # <<>> /\ Head(s) \in {"-", "+"} THEN Tail(s) ELSE s

CanInt(s) == IsIntLiteral(Unsigned(Strip(s)))

IntValue(s) ==
    IF Strip(s) # <<>> /\ Head(Strip(s)) = "-"
    THEN 0 - IntOf(Unsigned(Strip(s)))
    ELSE IntOf(Unsigned(Strip(s)))

\* what may arrive at input(): a typed line, an interrupt, the end of input
TypedLines ==
    {Str(n) : n \in 0..MaxAnswer} \cup {<<"-", "1">>, <<" ", "2">>, <<"a">>, <<>>}

Inputs ==
    {[key |-> "line", text |-> t] : t \in TypedLines} \cup
    {[key |-> "^C", text |-> <<>>], [key |-> "EOF", text |-> <<>>]}

\* the call of generate_questions and the effect of what it raises
GenerateBody ==
    /\ pc[Main] = "ready"
    /\ \E o \in ApiOutcomes :
         /\ response' = o
         /\ stderr' = stderr \o generate_questions(o).err
         /\ questions' = generate_questions(o).returned
         /\ IF generate_questions(o).raised = ""
            THEN /\ pc' = [pc EXCEPT ![Main] = "generated"]
                 /\ UNCHANGED <<exit_status, uncaught>>
            ELSE Raise(Main, generate_questions(o).raised,
                       IF generate_questions(o).raised = "KeyboardInterrupt"
                       THEN 130 ELSE 1)
    /\ UNCHANGED <<mode, qi, stdout>>

\* generate_questions with a call of log_api_usage in it
GenerateQuestionsLogged ==
    /\ GenerateBody
    /\ usage_count' = [usage_count EXCEPT ![Main] = usage_count[Main] + 1]
    /\ file' = Holding(Str(usage_count[Main] + 1))
    /\ calls' = [calls EXCEPT ![Main] = calls[Main] + 1]
    /\ written' = Append(written, <<Main, usage_count[Main] + 1>>)
    /\ UNCHANGED <<file0, loaded>>

\* lines 73 and 77: questions = generate_questions(...)
GenerateQuestions ==
    /\ GenerateBody
    /\ UNCHANGED usageVars

Finish(status) ==
    /\ pc' = [pc EXCEPT ![Main] = "exit"]
    /\ exit_status' = [exit_status EXCEPT ![Main] = status]
    /\ UNCHANGED uncaught

\* line 74: print(json.dumps(questions)), then the end of the script
PrintJson ==
    /\ pc[Main] = "generated"
    /\ mode = "json"
    /\ stdout' = Append(stdout, Line("json", 0, json_dumps(questions)))
    /\ Finish(0)
    /\ UNCHANGED <<mode, response, questions, qi, stderr>>
    /\ UNCHANGED usageVars

\* lines 79-81 without the exit
CheckQuestionsNoExit ==
    /\ pc[Main] = "generated"
    /\ mode = "interactive"
    /\ IF ~Truthy(questions)
       THEN stdout' = Append(stdout, Line("no_questions", 0, <<>>))
       ELSE UNCHANGED stdout
    /\ pc' = [pc EXCEPT ![Main] = "loop"]
    /\ UNCHANGED <<exit_status, uncaught>>
    /\ UNCHANGED <<mode, response, questions, qi, stderr>>
    /\ UNCHANGED usageVars

\* lines 79-81: if not questions: print, sys.exit(1)
CheckQuestions ==
    /\ pc[Main] = "generated"
    /\ mode = "interactive"
    /\ IF ~Truthy(questions)
       THEN /\ stdout' = Append(stdout, Line("no_questions", 0, <<>>))
            /\ Finish(1)
       ELSE /\ pc' = [pc EXCEPT ![Main] = "loop"]
            /\ UNCHANGED <<stdout, exit_status, uncaught>>
    /\ UNCHANGED <<mode, response, questions, qi, stderr>>
    /\ UNCHANGED usageVars

\* the question the loop is at
Q == QuestionOf(questions.items[qi])

\* lines 85-86 and 101-102: the choices, one line each
ChoiceLines(q, n) == [k \in 1..Len(q.choices) |-> Line("choice", n, <<q.choices[k]>>)]

\* lines 83-89: the next question, its choices and the prompt of input()
LoopNext ==
    /\ pc[Main] = "loop"
    /\ IF questions.kind # "array"
       THEN \* enumerate of a number, or of a dict, whose keys are strings
            /\ Raise(Main, "TypeError", 1)
            /\ UNCHANGED <<qi, stdout>>
       ELSE IF qi = Len(questions.items)
       THEN /\ Finish(0)
            /\ UNCHANGED <<qi, stdout>>
       ELSE LET tok == questions.items[qi + 1]
                q == QuestionOf(tok)
            IN  /\ qi' = qi + 1
                /\ IF tok \notin QuestionTokens
                   THEN /\ Raise(Main, IF tok = "{}" THEN "KeyError" ELSE "TypeError", 1)
                        /\ UNCHANGED stdout
                   ELSE IF ~q.has_question
                   THEN /\ Raise(Main, "KeyError", 1)
                        /\ UNCHANGED stdout
                   ELSE /\ stdout' = stdout \o <<Line("question", qi + 1, <<tok>>)>>
                                       \o ChoiceLines(q, qi + 1)
                                       \o <<Line("prompt", qi + 1, <<>>)>>
                        /\ pc' = [pc EXCEPT ![Main] = "prompt1"]
                        /\ UNCHANGED <<exit_status, uncaught>>
    /\ UNCHANGED <<mode, response, questions, stderr>>
    /\ UNCHANGED usageVars

\* the comparison turned around
IsCorrectNegated(user_input, q) == user_input # q.answer_index

\* lines 91 and 110: correct = (user_input == q['answer_index'])
IsCorrect(user_input, q) == user_input = q.answer_index

\* q['choices'][q['answer_index']] raises IndexError outside -len..len-1
CanIndex(q) == q.answer_index \in (0 - Len(q.choices))..(Len(q.choices) - 1)

ChoiceAt(q) ==
    IF q.answer_index >= 0 THEN q.choices[q.answer_index + 1]
    ELSE q.choices[Len(q.choices) + q.answer_index + 1]

\* lines 93 and 111: the report line
Report(user_input, q, n) ==
    IF IsCorrect(user_input, q) THEN Line("correct", n, <<>>)
    ELSE Line("wrong", n, <<ChoiceAt(q)>>)

Echo(inp, n) == Line("input", n, inp.text)

\* lines 89-102 and the prompt of line 105
Answer1(inp) ==
    /\ pc[Main] = "prompt1"
    /\ IF inp.key = "EOF"
       THEN /\ Raise(Main, "EOFError", 1)
            /\ UNCHANGED stdout
       ELSE IF inp.key = "^C"
       THEN /\ stdout' = Append(stdout, Line("interrupted", qi, <<>>))
            /\ Finish(0)
       ELSE IF ~CanInt(inp.text)
       THEN /\ stdout' = stdout \o <<Echo(inp, qi), Line("interrupted", qi, <<>>)>>
            /\ Finish(0)
       ELSE IF IntValue(inp.text) >= 0 /\ IntValue(inp.text) <= 3
       THEN IF ~CanIndex(Q)
            THEN /\ stdout' = Append(stdout, Echo(inp, qi))
                 /\ Raise(Main, "IndexError", 1)
            ELSE /\ stdout' = stdout
                       \o <<Echo(inp, qi), Report(IntValue(inp.text), Q, qi)>>
                       \o (IF Q.has_explanation
                           THEN <<Line("explanation", qi, <<>>)>> ELSE <<>>)
                       \o ChoiceLines(Q, qi) \o <<Line("prompt", qi, <<>>)>>
                 /\ pc' = [pc EXCEPT ![Main] = "prompt2"]
                 /\ UNCHANGED <<exit_status, uncaught>>
       ELSE /\ stdout' = stdout
                  \o <<Echo(inp, qi), Line("invalid_range", qi, <<>>)>>
                  \o ChoiceLines(Q, qi) \o <<Line("prompt", qi, <<>>)>>
            /\ pc' = [pc EXCEPT ![Main] = "prompt2"]
            /\ UNCHANGED <<exit_status, uncaught>>
    /\ UNCHANGED <<mode, response, questions, qi, stderr>>
    /\ UNCHANGED usageVars

\* lines 105-114
Answer2(inp) ==
    /\ pc[Main] = "prompt2"
    /\ IF inp.key = "EOF"
       THEN /\ Raise(Main, "EOFError", 1)
            /\ UNCHANGED stdout
       ELSE IF inp.key = "^C"
       THEN /\ Raise(Main, "KeyboardInterrupt", 130)
            /\ UNCHANGED stdout
       ELSE IF ~CanInt(inp.text)
       THEN /\ stdout' = stdout \o <<Echo(inp, qi), Line("invalid", qi, <<>>)>>
            /\ pc' = [pc EXCEPT ![Main] = "loop"]
            /\ UNCHANGED <<exit_status, uncaught>>
       ELSE IF ~IsCorrect(IntValue(inp.text), Q) /\ ~CanIndex(Q)
       THEN /\ stdout' = Append(stdout, Echo(inp, qi))
            /\ Raise(Main, "IndexError", 1)
       ELSE IF ~Q.has_explanation
       THEN /\ stdout' = stdout
                  \o <<Echo(inp, qi), Report(IntValue(inp.text), Q, qi)>>
            /\ Raise(Main, "KeyError", 1)
       ELSE \* line 114: update_ability is no name of the module
            /\ stdout' = stdout
                  \o <<Echo(inp, qi), Report(IntValue(inp.text), Q, qi),
                       Line("explanation", qi, <<>>)>>
            /\ Raise(Main, "NameError", 1)
    /\ UNCHANGED <<mode, response, questions, qi, stderr>>
    /\ UNCHANGED usageVars

Init ==
    /\ InitUsage({Main})
    /\ mode \in {"json", "interactive"}
    /\ response = NoResponse
    /\ questions = NoValue
    /\ qi = 0
    /\ stdout = <<>>
    /\ stderr = <<>>

Next ==
    \/ ExistsCheck(Main)
    \/ ReadCount(Main)
    \/ GenerateQuestions
    \/ PrintJson
    \/ CheckQuestions
    \/ LoopNext
    \/ \E inp \in Inputs : Answer1(inp)
    \/ \E inp \in Inputs : Answer2(inp)

Spec == Init /\ [][Next]_vars

\* ------------------------------------------------------------- claims

\* the largest count the startup clause of C8 is stated for
MaxCount == 25

ParseErrorLines(text) ==
    <<Line("parse_error", 0, <<>>), Line("raw_response", 0, text)>>

\* C1: when the call returns text that is not JSON, generate_questions
\* returns the empty list, stderr holds the parse error and the raw
\* response text, and no exception leaves the function.
C1_NonJsonReturnsEmpty ==
    (response.kind = "text" /\ response.text \in NonJsonTexts) =>
        /\ questions = EmptyList
        /\ stderr = ParseErrorLines(response.text)
        /\ uncaught[Main] = ""
        /\ pc[Main] \in {"generated", "exit"}

C1_Witness ==
    /\ response.kind = "text"
    /\ response.text = <<"Sure", "[", "qA", "]">>
    /\ pc[Main] = "generated"

IsArrayText(t) == Len(t) >= 2 /\ t[1] = "[" /\ t[Len(t)] = "]"

CallFailed == response.kind = "raise" /\ response.exc \in ExceptionClasses

\* C3: in json mode, whether the call failed, returned text that is not
\* JSON or returned any JSON text, stdout holds exactly one JSON value at
\* exit and it is an array: the parsed list, or [] when generation failed.
C3_BatchOutputIsArray ==
    (mode = "json" /\ pc[Main] = "exit"
        /\ (response.kind = "text" \/ CallFailed)) =>
        /\ Len(stdout) = 1
        /\ stdout[1].ev = "json"
        /\ IsArrayText(stdout[1].text)
        /\ (CallFailed \/ response.text \in NonJsonTexts)
              => stdout[1].text = <<"[", "]">>

WellFormed(tok) ==
    /\ tok \in QuestionTokens
    /\ QuestionOf(tok).has_question
    /\ Len(QuestionOf(tok).choices) = 4
    /\ QuestionOf(tok).answer_index \in 0..3

AllWellFormed ==
    /\ questions.kind = "array"
    /\ questions.items # <<>>
    /\ \A k \in 1..Len(questions.items) : WellFormed(questions.items[k])

\* C4: the exit status is 1 exactly when the mode is interactive and no
\* question was generated, and 0 for every other run; in particular an
\* interactive run over well-formed questions exits 0 whatever lines the
\* user types (the run is not cut by the end of input or an interrupt).
C4_ExitStatus ==
    (pc[Main] = "exit" /\ response.kind # "none"
        /\ uncaught[Main] \notin {"EOFError", "KeyboardInterrupt"}
        /\ (mode = "interactive" => (questions = EmptyList \/ AllWellFormed))) =>
        exit_status[Main] =
            (IF mode = "interactive" /\ questions = EmptyList THEN 1 ELSE 0)

Prompts(n) == {k \in 1..Len(stdout) : stdout[k].ev = "prompt" /\ stdout[k].n = n}

\* C5: each question is prompted for at most once: after an answer in
\* range or an integer out of range the loop goes to the next question,
\* and the statements after the first try of the loop body never run.
C5_PromptedOnce ==
    /\ pc[Main] # "prompt2"
    /\ \A n \in 1..qi : Cardinality(Prompts(n)) <= 1

IsReport(l) == l.ev \in {"correct", "wrong"}

InRangeAnswer(l) ==
    /\ l.ev = "input"
    /\ CanInt(l.text)
    /\ IntValue(l.text) \in 0..3

AnswerIndexOf(n) == QuestionOf(questions.items[n]).answer_index

ChoicesOf(n) == QuestionOf(questions.items[n]).choices

\* C6: every report on stdout follows the answer it is about; for a
\* question whose answer_index is in 0..3 and an answer in 0..3 the report
\* is Correct exactly when the answer equals answer_index, a Wrong report
\* carries choices[answer_index], and every such answer gets its report.
C6_ReportMatchesAnswer ==
    /\ \A k \in 1..Len(stdout) :
         IsReport(stdout[k]) =>
           /\ k > 1
           /\ stdout[k - 1].ev = "input"
           /\ (InRangeAnswer(stdout[k - 1]) /\ AnswerIndexOf(stdout[k].n) \in 0..3) =>
                /\ (stdout[k].ev = "correct")
                     <=> (IntValue(stdout[k - 1].text) = AnswerIndexOf(stdout[k].n))
                /\ (stdout[k].ev = "wrong") =>
                     stdout[k].text =
                        <<ChoicesOf(stdout[k].n)[AnswerIndexOf(stdout[k].n) + 1]>>
    /\ \A k \in 1..Len(stdout) :
         (InRangeAnswer(stdout[k]) /\ AnswerIndexOf(stdout[k].n) \in 0..3) =>
           /\ k < Len(stdout)
           /\ IsReport(stdout[k + 1])

C6_Witness ==
    /\ \E k \in 2..Len(stdout) :
         /\ stdout[k].ev = "wrong"
         /\ InRangeAnswer(stdout[k - 1])
         /\ stdout[k].text = <<"b2">>
    /\ \E k \in 2..Len(stdout) :
         /\ stdout[k].ev = "correct"
         /\ stdout[k - 1].text = <<"2">>

\* C7: in interactive mode, when generate_questions returned the empty
\* list, the process prints the no-questions line and nothing else, reads
\* no input and exits with status 1.
C7_EmptyExitsOne ==
    (mode = "interactive" /\ questions = EmptyList) =>
        /\ pc[Main] \in {"generated", "exit"}
        /\ pc[Main] = "generated" => stdout = <<>>
        /\ pc[Main] = "exit" =>
             /\ stdout = <<Line("no_questions", 0, <<>>)>>
             /\ exit_status[Main] = 1
             /\ uncaught[Main] = ""

C7_Witness ==
    /\ mode = "interactive"
    /\ response.kind = "text"
    /\ response.text \in NonJsonTexts
    /\ pc[Main] = "exit"
    /\ exit_status[Main] = 1

\* C8: one process alone: startup loads 0 from an absent or empty file and
\* n from a file holding n; after every log_api_usage call the file holds
\* the text of usage_count, which is the loaded count plus the calls made.
C8_FileFollowsCount ==
    /\ (pc[1] = "ready" /\ (~file0.exists \/ file0.content = <<>>)) => loaded[1] = 0
    /\ \A n \in 0..MaxCount :
         (pc[1] = "ready" /\ file0 = Holding(Str(n))) => loaded[1] = n
    /\ (pc[1] = "ready" /\ calls[1] >= 1) =>
         /\ file = Holding(Str(usage_count[1]))
         /\ usage_count[1] = loaded[1] + calls[1]
    /\ (pc[1] = "ready" /\ calls[1] >= 1 /\ ~file0.exists) =>
         file = Holding(Str(calls[1]))

C8_Witness ==
    /\ file0 = Holding(<<"9">>)
    /\ pc[1] = "ready"
    /\ calls[1] = 2
    /\ file = Holding(<<"1", "1">>)

OwnWrites(p, k) == Cardinality({j \in 1..k : written[j][1] = p})

AllReady == \A p \in Procs : pc[p] = "ready"

\* C9: two processes on one file lose updates: a written count is the
\* writer's loaded count plus its own calls only, the file holds the last
\* written count, and so after N and M calls of processes that loaded the
\* same count c the file holds less than c + N + M.
C9_WritesCountOwnCallsOnly ==
    /\ \A k \in 1..Len(written) :
         written[k][2] = loaded[written[k][1]] + OwnWrites(written[k][1], k)
    /\ (written # <<>> /\ \A p \in Procs : pc[p] # "opened") =>
         file = Holding(Str(written[Len(written)][2]))
    /\ (AllReady /\ loaded[1] = loaded[2] /\ calls[1] >= 1 /\ calls[2] >= 1) =>
         ParseCount(file.content) < loaded[1] + calls[1] + calls[2]

C9_Witness ==
    /\ AllReady
    /\ file0 = Holding(<<"2">>)
    /\ calls[1] >= 1
    /\ calls[2] >= 1
    /\ ParseCount(file.content) < 2 + calls[1] + calls[2]
    /\ \E k \in 1..(Len(written) - 1) : written[k + 1][2] < written[k][2]

\* C10: no run calls log_api_usage: the usage file is what it was at
\* startup (absent if it was absent), nothing was written, and usage_count
\* is the count loaded at startup.
C10_CounterUntouched ==
    /\ file = file0
    /\ written = <<>>
    /\ calls[Main] = 0
    /\ usage_count[Main] = loaded[Main]

C10_Witness ==
    /\ pc[Main] = "exit"
    /\ response.kind = "text"
    /\ mode = "interactive"
    /\ uncaught[Main] = "NameError"
    /\ ~file0.exists
    /\ ~file.exists
    /\ usage_count[Main] = 0
====
